---- MODULE Spec2Model ----
(***************************************************************************)
(* Tiered media storage of terrible-ytdlp-frontend: the two storage        *)
(* backends of src/media_filesystem.py (LocalFilesystem, AWSFilesystem)    *)
(* and the reconciler AWSFilesystem.integrity_check.                       *)
(*                                                                         *)
(* Files are measured in blocks.  A local file is a record                 *)
(* [exists, size, of]: size blocks have been written so far of a source    *)
(* whose os.stat size was `of` blocks; a file is complete when size = of.  *)
(* A remote object is its size in blocks, or None when there is no object  *)
(* (an S3 upload becomes visible only when it has completed).              *)
(***************************************************************************)
EXTENDS Integers, Sequences, FiniteSets, TLC

VARIABLES
    backend,        \* "Local" (LocalFilesystem) or "AWS" (AWSFilesystem)
    local_video,    \* {path}/{s0}/{s1}/{id}.mkv       : [Ids -> file]
    local_thumb,    \* {path}/thumbs/{s0}/{s1}/{id}.jpg: [Ids -> file]
    tmp_files,      \* {id}.mkv.tmp / .dl_tmp_1 / .dl_tmp_2 : [Suffixes -> [Ids -> file]]
    remote_video,   \* bucket object {prefix}{id}.mkv  : [Ids -> size or None]
    remote_thumb,   \* bucket object {prefix}{id}.jpg  : [Ids -> size or None]
    ctr,            \* self.uploaded, self.downloaded, self.total
    op,             \* the public call in progress or last finished (single-threaded)
    ic,             \* the frame of integrity_check: arguments, snapshot, position
    log,            \* the diagnostics integrity_check has printed
    addr,           \* the paths and keys last computed for two (id, kind)
    lst             \* the frame of _aws_content_list over a bucket of keys

vars == <<backend, local_video, local_thumb, tmp_files, remote_video,
          remote_thumb, ctr, op, ic, log, addr, lst>>

store == <<local_video, local_thumb, tmp_files, remote_video, remote_thumb>>

----------------------------------------------------------------------------
(* Bounds of the model *)

\* largest video source, in 8 MiB blocks
MaxSize == 2
\* largest thumbnail source, in blocks
MaxThumb == 1
\* public calls made on one backend object in one run
MaxCalls == 3
\* characters tried in the first two places of a video id
MaxChars == 3
\* objects in one page of list_objects_v2
MaxPage == 2

Ids == {"A", "B"}

Suffixes == {".tmp", ".dl_tmp_1", ".dl_tmp_2"}

Backends == {"Local", "AWS"}

----------------------------------------------------------------------------
(* Values *)

\* Python's None for a size that is not there
None == -1

\* StorageClass.OFFLINE, StorageClass.LOCAL, StorageClass.REMOTE
\* (LOCAL alone is a reserved word of TLA+)
SC_OFFLINE == "OFFLINE"

SC_LOCAL == "LOCAL"

SC_REMOTE == "REMOTE"

NoFile == [exists |-> FALSE, size |-> 0, of |-> 0]

File(k, n) == [exists |-> TRUE, size |-> k, of |-> n]

Complete(f) == f.exists /\ f.size = f.of

\* os.stat(path).st_size
st_size(f) == f.size

\* Response codes of head_object: 200, 404 (ClientError, not found), and the
\* other ClientErrors (403 forbidden, 500 internal error).
HeadFaults == {"403", "500"}

HeadCodes == {"200", "404"} \cup HeadFaults

\* The answers the bucket can give for an object that exists / does not exist.
HeadAnswers(exists) == (IF exists THEN {"200"} ELSE {"404"}) \cup HeadFaults

EmptyLocal == [v \in Ids |-> NoFile]

EmptyRemote == [v \in Ids |-> None]

EmptyTmp == [s \in Suffixes |-> EmptyLocal]

----------------------------------------------------------------------------
(* Storage Status Model *)

\* os.path.isfile(self._filename(vid))
local_video_exists(vid) == local_video[vid].exists

\* os.path.isfile(self._thumbnail_filename(vid))
local_thumbnail_exists(vid) == local_thumb[vid].exists

\* A mutant of head_probe: every ClientError counts as "not found".
head_probe_swallow(code) == IF code = "200" THEN "True" ELSE "False"

\* The body shared by _aws_video_exists and _aws_thumbnail_exists: head_object
\* answered `code`; True on success, False on a 404 ClientError, ValueError
\* raised on any other ClientError.
head_probe(code) ==
    IF code = "200" THEN "True"
    ELSE IF code = "404" THEN "False"
    ELSE "ValueError"

aws_video_exists(vid, code) == head_probe(code)

aws_thumbnail_exists(vid, code) == head_probe(code)

\* A mutant of tri_state: the remote probe is consulted before the cache.
tri_state_remote_first(is_local, probe) ==
    IF probe = "True" THEN SC_REMOTE
    ELSE IF is_local THEN SC_LOCAL
    ELSE IF probe = "False" THEN SC_OFFLINE
    ELSE "ValueError"

\* The if-chain of AWSFilesystem.video_status / thumbnail_status: the probe is
\* made (and can raise) only when there is no local file.
tri_state(is_local, probe) ==
    IF is_local THEN SC_LOCAL
    ELSE IF probe = "True" THEN SC_REMOTE
    ELSE IF probe = "False" THEN SC_OFFLINE
    ELSE "ValueError"

AWS_video_status(vid, code) ==
    tri_state(local_video_exists(vid), aws_video_exists(vid, code))

AWS_thumbnail_status(vid, code) ==
    tri_state(local_thumbnail_exists(vid), aws_thumbnail_exists(vid, code))

Local_video_status(vid) ==
    IF local_video[vid].exists THEN SC_LOCAL ELSE SC_OFFLINE

Local_thumbnail_status(vid) ==
    IF local_thumb[vid].exists THEN SC_LOCAL ELSE SC_OFFLINE

\* backend.video_status(vid), the bucket answering `code` if it is asked
video_status(vid, code) ==
    IF backend = "Local" THEN Local_video_status(vid)
    ELSE AWS_video_status(vid, code)

thumbnail_status(vid, code) ==
    IF backend = "Local" THEN Local_thumbnail_status(vid)
    ELSE AWS_thumbnail_status(vid, code)

----------------------------------------------------------------------------
(* Content addressing: strings are sequences of character codes *)

\* the characters a VideoID is made of: - 0-9 A-Z _ a-z
Alphabet == {45} \cup (48..57) \cup (65..90) \cup {95} \cup (97..122)

\* the number of characters of a VideoID
IdLen == 11

\* the characters tried in the first two places: the ends of the ranges of
\* Alphabet, the two ends of the whole first
EdgeChars == <<45, 122, 57, 65, 95, 48, 90, 97>>

SampleChars == {EdgeChars[j] : j \in 1..MaxChars}

\* the last nine characters tried: "000000000" and "00000000A"
Tails == {<<48, 48, 48, 48, 48, 48, 48, 48, 48>>,
          <<48, 48, 48, 48, 48, 48, 48, 48, 65>>}

\* the values of the VideoIDs tried
VideoIDs == {<<a, b>> \o t : <<a, b, t>> \in SampleChars \X SampleChars \X Tails}

Kinds == {"video", "thumbnail"}

\* "/", ".mkv", ".jpg", "thumbs"
Slash == <<47>>

DotMkv == <<46, 109, 107, 118>>

DotJpg == <<46, 106, 112, 103>>

Thumbs == <<116, 104, 117, 109, 98, 115>>

\* self.path, here "lib"
root_path == <<108, 105, 98>>

\* self.prefix: "" when no prefix was given, else the prefix and "/" ("p/")
Prefixes == {<<>>, <<112, 47>>}

\* str(n) of an f-string: the decimal digits, "-" first for a negative n
RECURSIVE Dec(_)
Dec(n) ==
    IF n < 0 THEN <<45>> \o Dec(-n)
    ELSE IF n < 10 THEN <<48 + n>>
    ELSE Dec(n \div 10) \o <<48 + (n % 10)>>

\* A mutant of shard: the offset is that of the letters.
shard_from_letters(c) == c - 64

\* ord(c) - 32, a character being its code
shard(c) == c - 32

\* the names of the two shard directories of vid
shard_dirs(vid) == <<Dec(shard(vid[1])), Dec(shard(vid[2]))>>

\* _foldername
foldername(vid) ==
    root_path \o Slash \o shard_dirs(vid)[1] \o Slash \o shard_dirs(vid)[2]

\* _filename
filename(vid) == foldername(vid) \o Slash \o vid \o DotMkv

\* _thumbnail_foldername
thumbnail_foldername(vid) ==
    root_path \o Slash \o Thumbs \o Slash \o shard_dirs(vid)[1]
              \o Slash \o shard_dirs(vid)[2]

\* _thumbnail_filename
thumbnail_filename(vid) == thumbnail_foldername(vid) \o Slash \o vid \o DotJpg

\* _aws_filename
aws_filename(pfx, vid) == pfx \o vid \o DotMkv

\* _aws_thumbnail_filename
aws_thumbnail_filename(pfx, vid) == pfx \o vid \o DotJpg

\* what the backend computes for (vid, kind): the shard numbers, the names
\* of the shard directories, the local path and the remote key
Address(pfx, vid, kind) ==
    [vid |-> vid, kind |-> kind,
     shards |-> <<shard(vid[1]), shard(vid[2])>>,
     dirs |-> shard_dirs(vid),
     path |-> IF kind = "video" THEN filename(vid)
              ELSE thumbnail_filename(vid),
     key |-> IF kind = "video" THEN aws_filename(pfx, vid)
             ELSE aws_thumbnail_filename(pfx, vid)]

NoAddress ==
    [vid |-> <<>>, kind |-> "-", shards |-> <<>>, dirs |-> <<>>,
     path |-> <<>>, key |-> <<>>]

NoAddrs == [prefix |-> <<>>, last |-> NoAddress, prev |-> NoAddress]

\* the paths and the key of (vid, kind) are computed; the ones computed
\* before are kept for comparison
Resolve(vid, kind) ==
    /\ addr' = [addr EXCEPT !.last = Address(addr.prefix, vid, kind),
                            !.prev = addr.last]
    /\ UNCHANGED <<backend, lst, store, ctr, op, ic, log>>

----------------------------------------------------------------------------
(* _aws_content_list over the keys of a bucket *)

\* two VideoIDs, "A0000000000" and "B0000000000"
IdP == <<65, 48, 48, 48, 48, 48, 48, 48, 48, 48, 48>>

IdQ == <<66, 48, 48, 48, 48, 48, 48, 48, 48, 48, 48>>

ListedIds == {IdP, IdQ}

\* "notes.txt", "sub/", "x.mkv"
NotesTxt == <<110, 111, 116, 101, 115, 46, 116, 120, 116>>

SubSlash == <<115, 117, 98, 47>>

XMkv == <<120>> \o DotMkv

\* The objects a bucket can hold under the prefix, in the order of their
\* keys: the thumbnail and the video of IdP and the video of IdQ at the keys
\* of this layer, and three objects put there by other means.
Candidates(pfx) ==
    << [key |-> aws_thumbnail_filename(pfx, IdP), size |-> 1, ours |-> TRUE],
       [key |-> aws_filename(pfx, IdP), size |-> 1, ours |-> TRUE],
       [key |-> aws_filename(pfx, IdQ), size |-> 1, ours |-> TRUE],
       [key |-> pfx \o NotesTxt, size |-> 2, ours |-> FALSE],
       [key |-> pfx \o SubSlash \o IdQ \o DotMkv, size |-> 2, ours |-> FALSE],
       [key |-> pfx \o XMkv, size |-> 2, ours |-> FALSE] >>

\* the buckets: the candidates at the chosen places, in key order
RECURSIVE Pick(_, _, _)
Pick(seq, chosen, j) ==
    IF j > Len(seq) THEN <<>>
    ELSE (IF j \in chosen THEN <<seq[j]>> ELSE <<>>) \o Pick(seq, chosen, j + 1)

Buckets(pfx) ==
    {Pick(Candidates(pfx), c, 1) : c \in SUBSET (DOMAIN Candidates(pfx))}

\* x['Key'][-4:] and x['Key'][-15:-4]
key_ext(key) == SubSeq(key, IF Len(key) > 4 THEN Len(key) - 3 ELSE 1, Len(key))

key_stem(key) ==
    SubSeq(key, IF Len(key) > 15 THEN Len(key) - 14 ELSE 1, Len(key) - 4)

\* VideoID(value) does not raise: 11 characters of the alphabet
valid_id(value) ==
    Len(value) = IdLen /\ \A j \in 1..Len(value) : value[j] \in Alphabet

\* the (VideoID, size) list of one comprehension: the entries of content
\* whose key ends in ext
entries_of(content, ext) ==
    SelectSeq(content, LAMBDA x : key_ext(x.key) = ext)

\* the value a dict slot ends with: the size of the last entry of vid, None
\* when there is none
RECURSIVE last_size(_, _, _)
last_size(entries, vid, j) ==
    IF j = 0 THEN None
    ELSE IF key_stem(entries[j].key) = vid THEN entries[j].size
    ELSE last_size(entries, vid, j - 1)

\* the dict `output`: a function on the VideoIDs found, [video, thumbnail]
output_of(content) ==
    LET vs == entries_of(content, DotMkv)
        ts == entries_of(content, DotJpg)
        found == {key_stem(vs[j].key) : j \in 1..Len(vs)}
                 \cup {key_stem(ts[j].key) : j \in 1..Len(ts)}
    IN [vid \in found |->
          [video |-> last_size(vs, vid, Len(vs)),
           thumb |-> last_size(ts, vid, Len(ts))]]

\* the two comprehensions raise: some key that ends in .mkv or .jpg has no
\* VideoID at [-15:-4]
some_invalid(content) ==
    \E j \in 1..Len(content) :
        /\ key_ext(content[j].key) \in {DotMkv, DotJpg}
        /\ ~valid_id(key_stem(content[j].key))

NoOutput == [vid \in {} |-> [video |-> None, thumb |-> None]]

NoListing ==
    [prefix |-> <<>>, bucket |-> <<>>, pc |-> "idle", got |-> 0,
     content_list |-> <<>>, requests |-> 0, output |-> NoOutput, err |-> "-"]

\* response['IsTruncated']
IsTruncated == lst.got < Len(lst.bucket)

\* one list_objects_v2 response with the next k objects
Page(k) == SubSeq(lst.bucket, lst.got + 1, lst.got + k)

\* The first request.  A bucket with no object under the prefix answers
\* without a 'Contents' key, and response['Contents'] raises KeyError.
List_first(k) ==
    /\ lst.pc = "start"
    /\ IF lst.bucket = <<>>
       THEN lst' = [lst EXCEPT !.pc = "raised", !.err = "KeyError",
                              !.requests = 1]
       ELSE /\ k <= Len(lst.bucket)
            /\ lst' = [lst EXCEPT !.pc = "paging", !.requests = 1,
                                  !.got = k, !.content_list = Page(k)]
    /\ UNCHANGED <<backend, addr, store, ctr, op, ic, log>>

\* while response['IsTruncated']: the next page is appended
List_next(k) ==
    /\ lst.pc = "paging" /\ IsTruncated
    /\ lst.got + k <= Len(lst.bucket)
    /\ lst' = [lst EXCEPT !.got = lst.got + k,
                          !.requests = lst.requests + 1,
                          !.content_list = lst.content_list \o Page(k)]
    /\ UNCHANGED <<backend, addr, store, ctr, op, ic, log>>

\* the two comprehensions and the dict, after the last page
List_build ==
    /\ lst.pc = "paging" /\ ~IsTruncated
    /\ IF some_invalid(lst.content_list)
       THEN lst' = [lst EXCEPT !.pc = "raised", !.err = "ValueError"]
       ELSE lst' = [lst EXCEPT !.pc = "returned",
                              !.output = output_of(lst.content_list)]
    /\ UNCHANGED <<backend, addr, store, ctr, op, ic, log>>

----------------------------------------------------------------------------
(* The call frame *)

Terminal == {"idle", "returned", "raised", "killed"}

InProgress == {"upload", "copy_open", "copy", "download", "rename"}

IdleOp ==
    [name |-> "none", vid |-> "-", pc |-> "idle", n |-> 0, avail |-> 0,
     copied |-> 0, code |-> "-", ret |-> "-", err |-> "-",
     pre_local |-> NoFile, pre_remote |-> None, repeat |-> FALSE,
     seq |-> 0, force |-> FALSE, loc |-> <<>>, listed |-> {}]

IdleIc ==
    [pc |-> "idle", known |-> <<>>, pins |-> {}, i |-> 0,
     aws_videos |-> [v \in Ids |-> [in |-> FALSE, video |-> None, thumb |-> None]],
     local0 |-> EmptyLocal, err |-> "-", acts |-> {}, lists |-> 0]

\* No public call is running: the program is single-threaded and synchronous.
Quiet == op.pc \in Terminal /\ ic.pc \in Terminal

\* A further call can be made (seq counts the calls of the run).
CanCall == Quiet /\ op.seq < MaxCalls

\* A fresh frame of write_video / write_thumbnail(vid, src): the source's
\* os.stat size is n blocks and reading it delivers avail blocks (avail < n is
\* a source truncated under the copy).  pre_local, pre_remote and repeat are
\* history: the final path and the remote object as the call found them, and
\* whether the call before was the same call, returned.
Frame(name, vid, n, a, pc) ==
    [name |-> name, vid |-> vid, pc |-> pc, n |-> n, avail |-> a,
     copied |-> 0, code |-> "-", ret |-> "-", err |-> "-",
     pre_local |-> IF name = "write_video" THEN local_video[vid]
                   ELSE local_thumb[vid],
     pre_remote |-> IF name = "write_video" THEN remote_video[vid]
                    ELSE remote_thumb[vid],
     repeat |-> /\ op.name = name /\ op.pc = "returned" /\ op.vid = vid
                /\ op.n = n /\ op.avail = a,
     seq |-> op.seq + 1, force |-> FALSE, loc |-> <<>>, listed |-> {}]

VideoSources == {<<n, a>> \in (1..MaxSize) \X (0..MaxSize) : a \in {n - 1, n}}

ThumbSources == {<<n, n>> : n \in 1..MaxThumb}

----------------------------------------------------------------------------
(* Transfer primitives *)

\* The final path of the asset a write call is about.
FinalOf(name, vid) ==
    IF name = "write_video" THEN local_video[vid] ELSE local_thumb[vid]

SetFinal(name, vid, f) ==
    IF name = "write_video"
    THEN /\ local_video' = [local_video EXCEPT ![vid] = f]
         /\ UNCHANGED local_thumb
    ELSE /\ local_thumb' = [local_thumb EXCEPT ![vid] = f]
         /\ UNCHANGED local_video

SetRemote(name, vid, size) ==
    IF name = "write_video"
    THEN /\ remote_video' = [remote_video EXCEPT ![vid] = size]
         /\ UNCHANGED remote_thumb
    ELSE /\ remote_thumb' = [remote_thumb EXCEPT ![vid] = size]
         /\ UNCHANGED remote_video

\* dest.write(blk): one more block in the file
Grown(f) == [f EXCEPT !.size = f.size + 1]

\* A mutant of sizes_differ: the size check never fires.
sizes_never_differ(tmp_size, src_size) == FALSE

\* os.stat(f"{dest_path}.tmp").st_size != src_size
sizes_differ(tmp_size, src_size) == tmp_size # src_size

\* A mutant of os_rename: the temporary file is removed, not renamed.
os_rename_dropped(vid, sfx) ==
    /\ tmp_files' = [tmp_files EXCEPT ![sfx][vid] = NoFile]
    /\ UNCHANGED local_video

\* os.rename(f"{dest_path}{sfx}", dest_path): the temporary file replaces
\* whatever is at the final path, in one step.
os_rename(vid, sfx) ==
    /\ local_video' = [local_video EXCEPT ![vid] = tmp_files[sfx][vid]]
    /\ tmp_files' = [tmp_files EXCEPT ![sfx][vid] = NoFile]

----------------------------------------------------------------------------
(* LocalFilesystem *)

\* write_video, up to the first read: makedirs, os.stat(src), open(src),
\* open(dest.tmp, "wb") which creates or truncates the temporary file.
Local_write_video_open(vid, n, a) ==
    /\ CanCall /\ backend = "Local"
    /\ op' = Frame("write_video", vid, n, a, "copy")
    /\ tmp_files' = [tmp_files EXCEPT ![".tmp"][vid] = File(0, n)]
    /\ UNCHANGED <<backend, addr, lst, local_video, local_thumb, remote_video,
                   remote_thumb, ctr, ic, log>>

\* one turn of the while loop: a block read and written to the .tmp file
Local_write_video_block ==
    /\ backend = "Local" /\ op.name = "write_video" /\ op.pc = "copy"
    /\ op.copied < op.avail
    /\ tmp_files' = [tmp_files EXCEPT
                       ![".tmp"][op.vid] = Grown(tmp_files[".tmp"][op.vid])]
    /\ op' = [op EXCEPT !.copied = op.copied + 1]
    /\ UNCHANGED <<backend, addr, lst, local_video, local_thumb, remote_video,
                   remote_thumb, ctr, ic, log>>

\* the read returned no block: leave the loop, compare the sizes, then either
\* raise ValueError (the .tmp file stays) or rename .tmp to the final path
Local_write_video_commit ==
    /\ backend = "Local" /\ op.name = "write_video" /\ op.pc = "copy"
    /\ op.copied = op.avail
    /\ IF sizes_differ(st_size(tmp_files[".tmp"][op.vid]), op.n)
       THEN /\ op' = [op EXCEPT !.pc = "raised", !.err = "ValueError"]
            /\ UNCHANGED <<local_video, tmp_files>>
       ELSE /\ op' = [op EXCEPT !.pc = "returned"]
            /\ os_rename(op.vid, ".tmp")
    /\ UNCHANGED <<backend, addr, lst, local_thumb, remote_video, remote_thumb, ctr,
                   ic, log>>

\* write_thumbnail: makedirs, then shutil.copyfile opens the final path "wb"
Local_write_thumbnail_open(vid, n, a) ==
    /\ CanCall /\ backend = "Local"
    /\ op' = Frame("write_thumbnail", vid, n, a, "copy")
    /\ local_thumb' = [local_thumb EXCEPT ![vid] = File(0, n)]
    /\ UNCHANGED <<backend, addr, lst, local_video, tmp_files, remote_video,
                   remote_thumb, ctr, ic, log>>

----------------------------------------------------------------------------
(* AWSFilesystem: write_video, write_thumbnail *)

\* A mutant of AWS_write_video_start: the cache copy is opened before the
\* upload is tried.
AWS_write_video_copy_first(vid, n, a) ==
    /\ CanCall /\ backend = "AWS"
    /\ op' = Frame("write_video", vid, n, a, "upload")
    /\ ctr' = [ctr EXCEPT !.total = n, !.uploaded = 0]
    /\ local_video' = [local_video EXCEPT ![vid] = File(0, n)]
    /\ UNCHANGED <<backend, addr, lst, local_thumb, tmp_files, remote_video,
                   remote_thumb, ic, log>>

\* write_video before the upload: self.total = size of src, self.uploaded = 0
AWS_write_video_start(vid, n, a) ==
    /\ CanCall /\ backend = "AWS"
    /\ op' = Frame("write_video", vid, n, a, "upload")
    /\ ctr' = [ctr EXCEPT !.total = n, !.uploaded = 0]
    /\ UNCHANGED <<backend, addr, lst, local_video, local_thumb, tmp_files,
                   remote_video, remote_thumb, ic, log>>

\* write_thumbnail before the upload (no counters, no callback)
AWS_write_thumbnail_start(vid, n, a) ==
    /\ CanCall /\ backend = "AWS"
    /\ op' = Frame("write_thumbnail", vid, n, a, "upload")
    /\ UNCHANGED <<backend, addr, lst, local_video, local_thumb, tmp_files,
                   remote_video, remote_thumb, ctr, ic, log>>

\* Bucket.upload_file(src, key) succeeds: the object is there, whole; the
\* callback of write_video has added every block to self.uploaded.
AWS_upload_ok ==
    /\ backend = "AWS" /\ op.pc = "upload"
    /\ SetRemote(op.name, op.vid, op.n)
    /\ ctr' = IF op.name = "write_video"
              THEN [ctr EXCEPT !.uploaded = ctr.uploaded + op.n]
              ELSE ctr
    /\ op' = [op EXCEPT !.pc = "copy_open"]
    /\ UNCHANGED <<backend, addr, lst, local_video, local_thumb, tmp_files, ic, log>>

\* A mutant of AWS_upload_fails: the failed upload takes the object away.
AWS_upload_fails_removes ==
    /\ backend = "AWS" /\ op.pc = "upload"
    /\ SetRemote(op.name, op.vid, None)
    /\ op' = [op EXCEPT !.pc = "raised", !.err = "S3UploadFailedError"]
    /\ UNCHANGED <<backend, addr, lst, local_video, local_thumb, tmp_files, ctr,
                   ic, log>>

\* Bucket.upload_file raises (S3UploadFailedError, ClientError, a connection
\* error): no object is created or replaced, and the call ends there.
AWS_upload_fails ==
    /\ backend = "AWS" /\ op.pc = "upload"
    /\ op' = [op EXCEPT !.pc = "raised", !.err = "S3UploadFailedError"]
    /\ UNCHANGED <<backend, addr, lst, store, ctr, ic, log>>

\* A mutant of AWS_copy_open: the final path is opened for appending.
AWS_copy_open_append ==
    /\ backend = "AWS" /\ op.pc = "copy_open"
    /\ SetFinal(op.name, op.vid,
                File(FinalOf(op.name, op.vid).size, op.n))
    /\ op' = [op EXCEPT !.pc = "copy"]
    /\ UNCHANGED <<backend, addr, lst, tmp_files, remote_video, remote_thumb, ctr, ic,
                   log>>

\* makedirs, then shutil.copy(src, final path) opens the final path "wb"
AWS_copy_open ==
    /\ backend = "AWS" /\ op.pc = "copy_open"
    /\ SetFinal(op.name, op.vid, File(0, op.n))
    /\ op' = [op EXCEPT !.pc = "copy"]
    /\ UNCHANGED <<backend, addr, lst, tmp_files, remote_video, remote_thumb, ctr, ic,
                   log>>

\* The copies made straight to the final path: shutil.copy of both AWS
\* writes and shutil.copyfile of LocalFilesystem.write_thumbnail.
DirectCopy ==
    /\ op.pc = "copy"
    /\ backend = "AWS" \/ op.name = "write_thumbnail"

\* shutil.copy / copyfile moves one more block to the final path
Copy_block ==
    /\ DirectCopy /\ op.copied < op.avail
    /\ SetFinal(op.name, op.vid, Grown(FinalOf(op.name, op.vid)))
    /\ op' = [op EXCEPT !.copied = op.copied + 1]
    /\ UNCHANGED <<backend, addr, lst, tmp_files, remote_video, remote_thumb, ctr, ic,
                   log>>

\* shutil.copy / copyfile reaches the end of the source and the call returns
Copy_done ==
    /\ DirectCopy /\ op.copied = op.avail
    /\ op' = [op EXCEPT !.pc = "returned"]
    /\ UNCHANGED <<backend, addr, lst, store, ctr, ic, log>>

\* The process is interrupted in the middle of a write: whatever is on disk
\* and in the bucket stays as it is.
Kill ==
    /\ op.pc \in InProgress
    /\ op' = [op EXCEPT !.pc = "killed"]
    /\ UNCHANGED <<backend, addr, lst, store, ctr, ic, log>>

----------------------------------------------------------------------------
(* get_video_url *)

\* self.bucket_name and self.prefix, as the constructor was given them
bucket_name == "bucket"

prefix == "prefix/"

\* self._aws_filename(vid), the key of the video object, in its three parts
VideoKey(vid) == <<prefix, vid, ".mkv">>

\* self._filename(vid), the final path of the video in the cache
VideoPath(vid) == <<"path", vid, ".mkv">>

\* generate_presigned_url(ClientMethod='get_object', Params={Bucket, Key})
PresignedUrl(bucket, key) == <<"https", bucket>> \o key

\* the frame of a get_video_url(vid, force_download) call
UrlFrame(vid, force, code, pc) ==
    [IdleOp EXCEPT
       !.name = "get_video_url", !.vid = vid, !.force = force, !.code = code,
       !.pc = pc, !.seq = op.seq + 1,
       !.pre_local = local_video[vid], !.pre_remote = remote_video[vid]]

\* LocalFilesystem.get_video_url: the local path, whatever force_download is
\* and whether or not the file is there
Local_get_video_url(vid, force) ==
    /\ CanCall /\ backend = "Local"
    /\ op' = [UrlFrame(vid, force, "-", "returned") EXCEPT
                !.ret = "path", !.loc = VideoPath(vid)]
    /\ UNCHANGED <<backend, addr, lst, store, ctr, ic, log>>

\* AWSFilesystem.get_video_url, cache hit: the local path, no network call
AWS_get_video_url_hit(vid, force) ==
    /\ CanCall /\ backend = "AWS"
    /\ local_video_exists(vid)
    /\ op' = [UrlFrame(vid, force, "-", "returned") EXCEPT
                !.ret = "path", !.loc = VideoPath(vid)]
    /\ UNCHANGED <<backend, addr, lst, store, ctr, ic, log>>

\* A mutant of AWS_get_video_url_presign: the object is fetched into the
\* cache before the URL is handed out.
AWS_get_video_url_presign_prefetch(vid) ==
    /\ CanCall /\ backend = "AWS"
    /\ ~local_video_exists(vid)
    /\ op' = [UrlFrame(vid, FALSE, "-", "returned") EXCEPT
                !.ret = "url",
                !.loc = PresignedUrl(bucket_name, VideoKey(vid))]
    /\ tmp_files' = [tmp_files EXCEPT ![".dl_tmp_1"][vid] = File(0, 1)]
    /\ UNCHANGED <<backend, addr, lst, local_video, local_thumb, remote_video,
                   remote_thumb, ctr, ic, log>>

\* AWSFilesystem.get_video_url, no local copy, force_download false: a
\* presigned URL for the bucket and the key of vid, no byte moved
AWS_get_video_url_presign(vid) ==
    /\ CanCall /\ backend = "AWS"
    /\ ~local_video_exists(vid)
    /\ op' = [UrlFrame(vid, FALSE, "-", "returned") EXCEPT
                !.ret = "url",
                !.loc = PresignedUrl(bucket_name, VideoKey(vid))]
    /\ UNCHANGED <<backend, addr, lst, store, ctr, ic, log>>

\* AWSFilesystem.get_video_url, no local copy, force_download true, up to
\* download_file: head_object answers `code`; any ClientError is raised as
\* ValueError, else self.total = ContentLength and self.uploaded = 0 (the
\* counter that is reset is uploaded, not downloaded)
AWS_get_video_url_head(vid, code) ==
    /\ CanCall /\ backend = "AWS"
    /\ ~local_video_exists(vid)
    /\ code \in HeadAnswers(remote_video[vid] # None)
    /\ IF code = "200"
       THEN /\ op' = UrlFrame(vid, TRUE, code, "download")
            /\ ctr' = [ctr EXCEPT !.total = remote_video[vid],
                                  !.uploaded = 0]
       ELSE /\ op' = [UrlFrame(vid, TRUE, code, "raised") EXCEPT
                       !.err = "ValueError"]
            /\ UNCHANGED ctr
    /\ UNCHANGED <<backend, addr, lst, store, ic, log>>

\* A mutant of AWS_download_ok: the object is downloaded to the final path.
AWS_download_direct ==
    /\ backend = "AWS" /\ op.name = "get_video_url" /\ op.pc = "download"
    /\ local_video' = [local_video EXCEPT ![op.vid] =
                          File(remote_video[op.vid], remote_video[op.vid])]
    /\ ctr' = [ctr EXCEPT !.downloaded = ctr.downloaded + remote_video[op.vid]]
    /\ op' = [op EXCEPT !.pc = "rename"]
    /\ UNCHANGED <<backend, addr, lst, tmp_files, local_thumb, remote_video,
                   remote_thumb, ic, log>>

\* download_file(key, final path + ".dl_tmp_1") succeeds: the whole object is
\* in the .dl_tmp_1 file (the transfer library fills a file of its own and
\* moves it there), the callback has added its blocks to self.downloaded
AWS_download_ok ==
    /\ backend = "AWS" /\ op.name = "get_video_url" /\ op.pc = "download"
    /\ tmp_files' = [tmp_files EXCEPT ![".dl_tmp_1"][op.vid] =
                        File(remote_video[op.vid], remote_video[op.vid])]
    /\ ctr' = [ctr EXCEPT !.downloaded = ctr.downloaded + remote_video[op.vid]]
    /\ op' = [op EXCEPT !.pc = "rename"]
    /\ UNCHANGED <<backend, addr, lst, local_video, local_thumb, remote_video,
                   remote_thumb, ic, log>>

\* download_file raises: nothing is left at the .dl_tmp_1 path
AWS_download_fails ==
    /\ backend = "AWS" /\ op.name = "get_video_url" /\ op.pc = "download"
    /\ op' = [op EXCEPT !.pc = "raised", !.err = "TransferError"]
    /\ UNCHANGED <<backend, addr, lst, store, ctr, ic, log>>

\* A mutant of AWS_get_video_url_rename: the call returns without the rename.
AWS_get_video_url_rename_skipped ==
    /\ backend = "AWS" /\ op.name = "get_video_url" /\ op.pc = "rename"
    /\ op' = [op EXCEPT !.pc = "returned", !.ret = "path",
                        !.loc = VideoPath(op.vid)]
    /\ UNCHANGED <<backend, addr, lst, store, ctr, ic, log>>

\* os.rename of the .dl_tmp_1 file to the final path, and the path returned
AWS_get_video_url_rename ==
    /\ backend = "AWS" /\ op.name = "get_video_url" /\ op.pc = "rename"
    /\ os_rename(op.vid, ".dl_tmp_1")
    /\ op' = [op EXCEPT !.pc = "returned", !.ret = "path",
                        !.loc = VideoPath(op.vid)]
    /\ UNCHANGED <<backend, addr, lst, local_thumb, remote_video, remote_thumb, ctr,
                   ic, log>>

----------------------------------------------------------------------------
(* LocalFilesystem.delete_video *)

\* A mutant of Local_delete_video: a missing file is passed over.
Local_delete_video_lenient(vid) ==
    /\ CanCall /\ backend = "Local"
    /\ op' = [IdleOp EXCEPT !.name = "delete_video", !.vid = vid,
                            !.seq = op.seq + 1, !.pc = "returned"]
    /\ local_video' = [local_video EXCEPT ![vid] = NoFile]
    /\ local_thumb' = [local_thumb EXCEPT ![vid] = NoFile]
    /\ UNCHANGED <<backend, addr, lst, tmp_files, remote_video, remote_thumb, ctr, ic,
                   log>>

\* os.remove(video) then os.remove(thumbnail): the first file that is not
\* there raises FileNotFoundError, after the removals before it
Local_delete_video(vid) ==
    /\ CanCall /\ backend = "Local"
    /\ op' = [IdleOp EXCEPT
                !.name = "delete_video", !.vid = vid, !.seq = op.seq + 1,
                !.pc = IF local_video[vid].exists /\ local_thumb[vid].exists
                       THEN "returned" ELSE "raised",
                !.err = IF local_video[vid].exists /\ local_thumb[vid].exists
                        THEN "-" ELSE "FileNotFoundError"]
    /\ local_video' = [local_video EXCEPT ![vid] = NoFile]
    /\ local_thumb' = IF local_video[vid].exists
                      THEN [local_thumb EXCEPT ![vid] = NoFile]
                      ELSE local_thumb
    /\ UNCHANGED <<backend, addr, lst, tmp_files, remote_video, remote_thumb, ctr, ic,
                   log>>

----------------------------------------------------------------------------
(* video_status, thumbnail_status as calls *)

\* video_status(vid) on either backend; `code` is what head_object answers if
\* the call gets to ask.
Video_status_call(vid, code) ==
    /\ CanCall
    /\ code \in HeadAnswers(remote_video[vid] # None)
    /\ LET r == video_status(vid, code)
       IN op' = [IdleOp EXCEPT
                   !.name = "video_status", !.vid = vid, !.code = code,
                   !.pc = IF r = "ValueError" THEN "raised" ELSE "returned",
                   !.ret = IF r = "ValueError" THEN "-" ELSE r,
                   !.err = IF r = "ValueError" THEN r ELSE "-",
                   !.seq = op.seq + 1]
    /\ UNCHANGED <<backend, addr, lst, store, ctr, ic, log>>

Thumbnail_status_call(vid, code) ==
    /\ CanCall
    /\ code \in HeadAnswers(remote_thumb[vid] # None)
    /\ LET r == thumbnail_status(vid, code)
       IN op' = [IdleOp EXCEPT
                   !.name = "thumbnail_status", !.vid = vid, !.code = code,
                   !.pc = IF r = "ValueError" THEN "raised" ELSE "returned",
                   !.ret = IF r = "ValueError" THEN "-" ELSE r,
                   !.err = IF r = "ValueError" THEN r ELSE "-",
                   !.seq = op.seq + 1]
    /\ UNCHANGED <<backend, addr, lst, store, ctr, ic, log>>

\* AWSFilesystem.video_cached(vid)
video_cached(vid) == local_video_exists(vid)

\* LocalFilesystem.video_cached(vid)
Local_video_cached(vid) == TRUE

\* media_fs.video_cached(vid), on the backend that was configured
backend_video_cached(vid) ==
    IF backend = "AWS" THEN video_cached(vid) ELSE Local_video_cached(vid)

\* media_fs.video_cached(vid) as a call
Video_cached_call(vid) ==
    /\ CanCall
    /\ op' = [IdleOp EXCEPT
                !.name = "video_cached", !.vid = vid, !.pc = "returned",
                !.ret = IF backend_video_cached(vid) THEN "True" ELSE "False",
                !.seq = op.seq + 1]
    /\ UNCHANGED <<backend, addr, lst, store, ctr, ic, log>>

----------------------------------------------------------------------------
(* AWSFilesystem.get_thumbnail_url *)

\* self._aws_thumbnail_filename(vid) and self._thumbnail_filename(vid)
ThumbKey(vid) == <<prefix, vid, ".jpg">>

ThumbPath(vid) == <<"path", "thumbs", vid, ".jpg">>

\* the local thumbnail path when the file is there, else a presigned URL
AWS_get_thumbnail_url(vid) ==
    /\ CanCall /\ backend = "AWS"
    /\ op' = [IdleOp EXCEPT
                !.name = "get_thumbnail_url", !.vid = vid, !.pc = "returned",
                !.seq = op.seq + 1,
                !.ret = IF local_thumbnail_exists(vid) THEN "path" ELSE "url",
                !.loc = IF local_thumbnail_exists(vid) THEN ThumbPath(vid)
                        ELSE PresignedUrl(bucket_name, ThumbKey(vid))]
    /\ UNCHANGED <<backend, addr, lst, store, ctr, ic, log>>

----------------------------------------------------------------------------
(* LocalFilesystem.list_all_videos *)

\* ".tmp", ".dl_tmp_1", ".dl_tmp_2" as characters
SuffixChars(sfx) ==
    IF sfx = ".tmp" THEN <<46, 116, 109, 112>>
    ELSE IF sfx = ".dl_tmp_1"
         THEN <<46, 100, 108, 95, 116, 109, 112, 95, 49>>
         ELSE <<46, 100, 108, 95, 116, 109, 112, 95, 50>>

\* The files under self.path, each as the top-level directory it is under
\* (a shard directory or "thumbs"), the id its name begins with and the
\* rest of its name.
TreeFiles ==
    {[top |-> "shard", vid |-> v, rest |-> DotMkv] :
        v \in {w \in Ids : local_video[w].exists}}
    \cup {[top |-> "shard", vid |-> x[2], rest |-> DotMkv \o SuffixChars(x[1])] :
        x \in {y \in Suffixes \X Ids : tmp_files[y[1]][y[2]].exists}}
    \cup {[top |-> "thumbs", vid |-> v, rest |-> DotJpg] :
        v \in {w \in Ids : local_thumb[w].exists}}

\* x.name[-4:]
last4(e) == SubSeq(e.rest, Len(e.rest) - 3, Len(e.rest))

\* A mutant of is_video_name: every file of a shard directory is taken.
is_video_name_any(e) == TRUE

\* x.name[-4:]=='.mkv' and x.name[0] != "." (an id never begins with ".")
is_video_name(e) == last4(e) = DotMkv

\* the ids of the files of the shard directories that pass the filter
list_all_videos ==
    {e.vid : e \in {f \in TreeFiles : f.top # "thumbs" /\ is_video_name(f)}}

Local_list_all_videos ==
    /\ CanCall /\ backend = "Local"
    /\ op' = [IdleOp EXCEPT
                !.name = "list_all_videos", !.pc = "returned",
                !.seq = op.seq + 1, !.listed = list_all_videos]
    /\ UNCHANGED <<backend, addr, lst, store, ctr, ic, log>>

----------------------------------------------------------------------------
(* The storage backends under writes and status probes *)

\* After construction: the cache directory and the bucket hold no asset.
InitStore ==
    /\ backend \in Backends
    /\ local_video = EmptyLocal
    /\ local_thumb = EmptyLocal
    /\ tmp_files = EmptyTmp
    /\ remote_video = EmptyRemote
    /\ remote_thumb = EmptyRemote
    /\ ctr = [uploaded |-> 0, downloaded |-> 0, total |-> 0]
    /\ op = IdleOp
    /\ ic = IdleIc
    /\ log = <<>>
    /\ addr = NoAddrs
    /\ lst = NoListing

NextStore ==
    \/ \E vid \in Ids, s \in VideoSources :
          Local_write_video_open(vid, s[1], s[2])
    \/ Local_write_video_block
    \/ Local_write_video_commit
    \/ \E vid \in Ids, s \in ThumbSources :
          Local_write_thumbnail_open(vid, s[1], s[2])
    \/ \E vid \in Ids, s \in VideoSources :
          AWS_write_video_start(vid, s[1], s[2])
    \/ \E vid \in Ids, s \in ThumbSources :
          AWS_write_thumbnail_start(vid, s[1], s[2])
    \/ AWS_upload_ok
    \/ AWS_upload_fails
    \/ AWS_copy_open
    \/ Copy_block
    \/ Copy_done
    \/ Kill
    \/ \E vid \in Ids, force \in BOOLEAN : Local_get_video_url(vid, force)
    \/ \E vid \in Ids, force \in BOOLEAN : AWS_get_video_url_hit(vid, force)
    \/ \E vid \in Ids : AWS_get_video_url_presign(vid)
    \/ \E vid \in Ids, code \in HeadCodes : AWS_get_video_url_head(vid, code)
    \/ AWS_download_ok
    \/ AWS_download_fails
    \/ AWS_get_video_url_rename
    \/ \E vid \in Ids : Local_delete_video(vid)
    \/ \E vid \in Ids, code \in HeadCodes : Video_status_call(vid, code)
    \/ \E vid \in Ids, code \in HeadCodes : Thumbnail_status_call(vid, code)
    \/ \E vid \in Ids : Video_cached_call(vid)
    \/ \E vid \in Ids : AWS_get_thumbnail_url(vid)
    \/ Local_list_all_videos

SpecStore == InitStore /\ [][NextStore]_vars

----------------------------------------------------------------------------
(* AWSFilesystem: the remote listing *)

\* list_objects_v2 finds no object under the prefix: its response holds no
\* 'Contents' key, and response['Contents'] raises KeyError.
listing_is_empty ==
    \A v \in Ids : remote_video[v] = None /\ remote_thumb[v] = None

\* _aws_content_list: VideoID -> [video size or None, thumbnail size or None],
\* with an entry for every id that has an object of either kind.
aws_content_list ==
    [v \in Ids |->
        [in |-> remote_video[v] # None \/ remote_thumb[v] # None,
         video |-> remote_video[v],
         thumb |-> remote_thumb[v]]]

----------------------------------------------------------------------------
(* AWSFilesystem.integrity_check(database_videos, cached_videos) *)

\* database_videos: the ids of the database, each once, in its order
KnownLists ==
    {<<>>} \cup {<<v>> : v \in Ids}
           \cup {<<v, w>> : <<v, w>> \in {x \in Ids \X Ids : x[1] # x[2]}}

\* the id the loop is at
Cur == ic.known[ic.i]

\* A mutant of video_needs_upload: only an id with no entry is uploaded.
video_needs_upload_absent_only(vid, size) == ~ic.aws_videos[vid].in

\* vid not in aws_videos or aws_videos[vid][0] != local_video_size
video_needs_upload(vid, size) ==
    ~ic.aws_videos[vid].in \/ ic.aws_videos[vid].video # size

\* A mutant of thumb_needs_upload: the video size of the entry is compared.
thumb_needs_upload_video_entry(vid, size) ==
    ~ic.aws_videos[vid].in \/ ic.aws_videos[vid].video # size

\* vid not in aws_videos or aws_videos[vid][1] != local_thumbnail_size
thumb_needs_upload(vid, size) ==
    ~ic.aws_videos[vid].in \/ ic.aws_videos[vid].thumb # size

\* A mutant of video_missing: the test on the listed size is inverted.
video_missing_inverted(vid) ==
    ~ic.aws_videos[vid].in \/ ic.aws_videos[vid].video # None

\* vid not in aws_videos or aws_videos[vid][0] is None
video_missing(vid) ==
    ~ic.aws_videos[vid].in \/ ic.aws_videos[vid].video = None

\* A mutant of thumb_missing: an id with no entry at all is not reported.
thumb_missing_listed_only(vid) ==
    ic.aws_videos[vid].in /\ ic.aws_videos[vid].thumb = None

\* vid not in aws_videos or aws_videos[vid][1] is None
thumb_missing(vid) ==
    ~ic.aws_videos[vid].in \/ ic.aws_videos[vid].thumb = None

\* print(f"ERROR: Missing video: {vid}"), the text of both legs; leg records
\* which of the two print statements wrote the line.
Missing(vid, leg) == [msg |-> "ERROR: Missing video", vid |-> vid, leg |-> leg]

\* the end of one turn of the for loop
Advance(frame) ==
    IF frame.i = Len(frame.known)
    THEN [frame EXCEPT !.pc = "returned"]
    ELSE [frame EXCEPT !.pc = "video", !.i = frame.i + 1]

\* The listing and the three counts printed before the loop.
Ic_call(known, pins) ==
    /\ Quiet /\ backend = "AWS" /\ ic.pc = "idle"
    /\ IF listing_is_empty
       THEN ic' = [IdleIc EXCEPT !.pc = "raised", !.err = "KeyError",
                                 !.known = known, !.pins = pins,
                                 !.local0 = local_video, !.lists = 1]
       ELSE ic' = [IdleIc EXCEPT
                     !.pc = IF known = <<>> THEN "returned" ELSE "video",
                     !.known = known, !.pins = pins,
                     !.i = IF known = <<>> THEN 0 ELSE 1,
                     !.aws_videos = aws_content_list,
                     !.local0 = local_video, !.lists = 1]
    /\ UNCHANGED <<backend, addr, lst, store, ctr, op, log>>

\* A mutant of Ic_video_leg: a local copy is never compared with the listing.
Ic_video_leg_no_compare ==
    /\ ic.pc = "video"
    /\ IF local_video_exists(Cur)
       THEN UNCHANGED log
       ELSE log' = IF video_missing(Cur)
                   THEN Append(log, Missing(Cur, "video")) ELSE log
    /\ ic' = [ic EXCEPT !.pc = "thumb"]
    /\ UNCHANGED <<backend, addr, lst, store, ctr, op>>

\* Video leg without a transfer: the local copy has the listed size, or there
\* is no local copy and the listing decides whether the video is missing.
Ic_video_leg ==
    /\ ic.pc = "video"
    /\ IF local_video_exists(Cur)
       THEN /\ ~video_needs_upload(Cur, st_size(local_video[Cur]))
            /\ UNCHANGED log
       ELSE log' = IF video_missing(Cur)
                   THEN Append(log, Missing(Cur, "video")) ELSE log
    /\ ic' = [ic EXCEPT !.pc = "thumb"]
    /\ UNCHANGED <<backend, addr, lst, store, ctr, op>>

\* A mutant of Ic_video_upload_ok: the bucket is listed again after the
\* upload.
Ic_video_upload_ok_relist ==
    /\ ic.pc = "video"
    /\ local_video_exists(Cur)
    /\ video_needs_upload(Cur, st_size(local_video[Cur]))
    /\ remote_video' = [remote_video EXCEPT ![Cur] = st_size(local_video[Cur])]
    /\ ctr' = [ctr EXCEPT !.total = st_size(local_video[Cur]),
                          !.uploaded = st_size(local_video[Cur])]
    /\ ic' = [ic EXCEPT !.pc = "thumb",
                        !.acts = ic.acts \cup {<<"upload", "video", Cur>>},
                        !.aws_videos[Cur].in = TRUE,
                        !.aws_videos[Cur].video = st_size(local_video[Cur]),
                        !.lists = ic.lists + 1]
    /\ UNCHANGED <<backend, addr, lst, local_video, local_thumb, tmp_files,
                   remote_thumb, op, log>>

\* Video leg, upload of the local copy, which succeeds
Ic_video_upload_ok ==
    /\ ic.pc = "video"
    /\ local_video_exists(Cur)
    /\ video_needs_upload(Cur, st_size(local_video[Cur]))
    /\ remote_video' = [remote_video EXCEPT ![Cur] = st_size(local_video[Cur])]
    /\ ctr' = [ctr EXCEPT !.total = st_size(local_video[Cur]),
                          !.uploaded = st_size(local_video[Cur])]
    /\ ic' = [ic EXCEPT !.pc = "thumb",
                        !.acts = ic.acts \cup {<<"upload", "video", Cur>>}]
    /\ UNCHANGED <<backend, addr, lst, local_video, local_thumb, tmp_files,
                   remote_thumb, op, log>>

\* A mutant of Ic_video_upload_fails: the exception is swallowed.
Ic_video_upload_fails_swallowed ==
    /\ ic.pc = "video"
    /\ local_video_exists(Cur)
    /\ video_needs_upload(Cur, st_size(local_video[Cur]))
    /\ ctr' = [ctr EXCEPT !.total = st_size(local_video[Cur]), !.uploaded = 0]
    /\ ic' = [ic EXCEPT !.pc = "thumb"]
    /\ UNCHANGED <<backend, addr, lst, store, op, log>>

\* Video leg, upload of the local copy, which raises
Ic_video_upload_fails ==
    /\ ic.pc = "video"
    /\ local_video_exists(Cur)
    /\ video_needs_upload(Cur, st_size(local_video[Cur]))
    /\ ctr' = [ctr EXCEPT !.total = st_size(local_video[Cur]), !.uploaded = 0]
    /\ ic' = [ic EXCEPT !.pc = "raised", !.err = "S3UploadFailedError"]
    /\ UNCHANGED <<backend, addr, lst, store, op, log>>

\* A mutant of Ic_thumb_leg: a missing thumbnail is passed over in silence.
Ic_thumb_leg_silent ==
    /\ ic.pc = "thumb"
    /\ local_thumbnail_exists(Cur) =>
          ~thumb_needs_upload(Cur, st_size(local_thumb[Cur]))
    /\ ic' = [ic EXCEPT !.pc = "pin"]
    /\ UNCHANGED <<backend, addr, lst, store, ctr, op, log>>

\* Thumbnail leg without a transfer
Ic_thumb_leg ==
    /\ ic.pc = "thumb"
    /\ IF local_thumbnail_exists(Cur)
       THEN /\ ~thumb_needs_upload(Cur, st_size(local_thumb[Cur]))
            /\ UNCHANGED log
       ELSE log' = IF thumb_missing(Cur)
                   THEN Append(log, Missing(Cur, "thumbnail")) ELSE log
    /\ ic' = [ic EXCEPT !.pc = "pin"]
    /\ UNCHANGED <<backend, addr, lst, store, ctr, op>>

\* Thumbnail leg, upload of the local thumbnail, which succeeds
Ic_thumb_upload_ok ==
    /\ ic.pc = "thumb"
    /\ local_thumbnail_exists(Cur)
    /\ thumb_needs_upload(Cur, st_size(local_thumb[Cur]))
    /\ remote_thumb' = [remote_thumb EXCEPT ![Cur] = st_size(local_thumb[Cur])]
    /\ ic' = [ic EXCEPT !.pc = "pin",
                        !.acts = ic.acts \cup {<<"upload", "thumbnail", Cur>>}]
    /\ UNCHANGED <<backend, addr, lst, local_video, local_thumb, tmp_files,
                   remote_video, ctr, op, log>>

\* Thumbnail leg, upload of the local thumbnail, which raises
Ic_thumb_upload_fails ==
    /\ ic.pc = "thumb"
    /\ local_thumbnail_exists(Cur)
    /\ thumb_needs_upload(Cur, st_size(local_thumb[Cur]))
    /\ ic' = [ic EXCEPT !.pc = "raised", !.err = "S3UploadFailedError"]
    /\ UNCHANGED <<backend, addr, lst, store, ctr, op, log>>

\* Pin step with nothing to do: pinned and cached, or neither
Ic_pin_keep ==
    /\ ic.pc = "pin"
    /\ (Cur \in ic.pins) = video_cached(Cur)
    /\ ic' = Advance(ic)
    /\ UNCHANGED <<backend, addr, lst, store, ctr, op, log>>

\* Pinned, not cached, and no entry in the listing: aws_videos[vid] raises
Ic_pin_keyerror ==
    /\ ic.pc = "pin"
    /\ Cur \in ic.pins /\ ~video_cached(Cur)
    /\ ~ic.aws_videos[Cur].in
    /\ ic' = [ic EXCEPT !.pc = "raised", !.err = "KeyError"]
    /\ UNCHANGED <<backend, addr, lst, store, ctr, op, log>>

\* Pinned, not cached, listed: the counters are set and download_file gets
\* the whole object into the .dl_tmp_2 file
Ic_pin_download_ok ==
    /\ ic.pc = "pin"
    /\ Cur \in ic.pins /\ ~video_cached(Cur)
    /\ ic.aws_videos[Cur].in
    /\ remote_video[Cur] # None
    /\ tmp_files' = [tmp_files EXCEPT ![".dl_tmp_2"][Cur] =
                        File(remote_video[Cur], remote_video[Cur])]
    /\ ctr' = [ctr EXCEPT
                 !.total = IF ic.aws_videos[Cur].video = None THEN 0
                           ELSE ic.aws_videos[Cur].video,
                 !.downloaded = remote_video[Cur]]
    /\ ic' = [ic EXCEPT !.pc = "rename",
                        !.acts = ic.acts \cup {<<"download", "video", Cur>>}]
    /\ UNCHANGED <<backend, addr, lst, local_video, local_thumb, remote_video,
                   remote_thumb, op, log>>

\* Pinned, not cached, listed: download_file raises, with ClientError 404
\* when the bucket has no video object for the id and with a transfer error
\* otherwise
Ic_pin_download_fails ==
    /\ ic.pc = "pin"
    /\ Cur \in ic.pins /\ ~video_cached(Cur)
    /\ ic.aws_videos[Cur].in
    /\ ctr' = [ctr EXCEPT
                 !.total = IF ic.aws_videos[Cur].video = None THEN 0
                           ELSE ic.aws_videos[Cur].video,
                 !.downloaded = 0]
    /\ ic' = [ic EXCEPT !.pc = "raised",
                        !.err = IF remote_video[Cur] = None
                                THEN "ClientError404" ELSE "TransferError"]
    /\ UNCHANGED <<backend, addr, lst, store, op, log>>

\* A mutant of Ic_pin_rename: the loop goes on without the rename.
Ic_pin_rename_skipped ==
    /\ ic.pc = "rename"
    /\ ic' = Advance(ic)
    /\ UNCHANGED <<backend, addr, lst, store, ctr, op, log>>

\* os.rename of the finished download to the final path
Ic_pin_rename ==
    /\ ic.pc = "rename"
    /\ os_rename(Cur, ".dl_tmp_2")
    /\ ic' = Advance(ic)
    /\ UNCHANGED <<backend, addr, lst, local_thumb, remote_video, remote_thumb, ctr,
                   op, log>>

\* A mutant of evicted: every video that is not pinned is removed.
evicted_all_unpinned(vid) ==
    [v \in Ids |-> IF v \in ic.pins THEN local_video[v] ELSE NoFile]

\* os.remove(self._filename(vid)): the cache without the video of vid
evicted(vid) == [local_video EXCEPT ![vid] = NoFile]

\* Not pinned and cached: the local copy is evicted
Ic_evict ==
    /\ ic.pc = "pin"
    /\ Cur \notin ic.pins /\ video_cached(Cur)
    /\ local_video' = evicted(Cur)
    /\ ic' = [Advance(ic) EXCEPT
                !.acts = ic.acts \cup {<<"evict", "video", Cur>>}]
    /\ UNCHANGED <<backend, addr, lst, local_thumb, tmp_files, remote_video,
                   remote_thumb, ctr, op, log>>

\* A cache and a bucket as earlier runs (and other machines writing to the
\* bucket) can have left them: every file whole, no temporary file.
InitIC ==
    /\ backend = "AWS"
    /\ local_video \in [Ids -> {NoFile} \cup {File(k, k) : k \in 1..MaxSize}]
    /\ local_thumb \in [Ids -> {NoFile} \cup {File(k, k) : k \in 1..MaxThumb}]
    /\ tmp_files = EmptyTmp
    /\ remote_video \in [Ids -> {None} \cup (1..MaxSize)]
    /\ remote_thumb \in [Ids -> {None} \cup (1..MaxThumb)]
    /\ ctr = [uploaded |-> 0, downloaded |-> 0, total |-> 0]
    /\ op = IdleOp
    /\ ic = IdleIc
    /\ log = <<>>
    /\ addr = NoAddrs
    /\ lst = NoListing

NextIC ==
    \/ \E known \in KnownLists, pins \in SUBSET Ids : Ic_call(known, pins)
    \/ Ic_video_leg
    \/ Ic_video_upload_ok
    \/ Ic_video_upload_fails
    \/ Ic_thumb_leg
    \/ Ic_thumb_upload_ok
    \/ Ic_thumb_upload_fails
    \/ Ic_pin_keep
    \/ Ic_pin_keyerror
    \/ Ic_pin_download_ok
    \/ Ic_pin_download_fails
    \/ Ic_pin_rename
    \/ Ic_evict

SpecIC == InitIC /\ [][NextIC]_vars

----------------------------------------------------------------------------
(* The two download paths: get_video_url(force_download) and the pin step *)

\* The process is interrupted in the pin step: inside download_file, which
\* has not yet put anything at the .dl_tmp_2 path, or between download_file
\* and os.rename.
Ic_kill ==
    /\ \/ ic.pc = "rename"
       \/ /\ ic.pc = "pin"
          /\ Cur \in ic.pins /\ ~video_cached(Cur) /\ ic.aws_videos[Cur].in
    /\ ic' = [ic EXCEPT !.pc = "killed"]
    /\ UNCHANGED <<backend, addr, lst, store, ctr, op, log>>

\* A cache and a bucket with videos only: every video whole, no thumbnail
\* and no temporary file.
InitDl ==
    /\ backend = "AWS"
    /\ local_video \in [Ids -> {NoFile} \cup {File(k, k) : k \in 1..MaxSize}]
    /\ local_thumb = EmptyLocal
    /\ tmp_files = EmptyTmp
    /\ remote_video \in [Ids -> {None} \cup (1..MaxSize)]
    /\ remote_thumb = EmptyRemote
    /\ ctr = [uploaded |-> 0, downloaded |-> 0, total |-> 0]
    /\ op = IdleOp
    /\ ic = IdleIc
    /\ log = <<>>
    /\ addr = NoAddrs
    /\ lst = NoListing

\* The calls that download: get_video_url(force_download = True) for an id
\* with no local video, and one pass of integrity_check; either can be
\* interrupted (with no thumbnail in the cache the pass uploads none).
NextDl ==
    \/ \E vid \in Ids, code \in HeadCodes : AWS_get_video_url_head(vid, code)
    \/ AWS_download_ok
    \/ AWS_download_fails
    \/ AWS_get_video_url_rename
    \/ Kill
    \/ \E known \in KnownLists, pins \in SUBSET Ids : Ic_call(known, pins)
    \/ Ic_video_leg
    \/ Ic_video_upload_ok
    \/ Ic_video_upload_fails
    \/ Ic_thumb_leg
    \/ Ic_pin_keep
    \/ Ic_pin_keyerror
    \/ Ic_pin_download_ok
    \/ Ic_pin_download_fails
    \/ Ic_pin_rename
    \/ Ic_evict
    \/ Ic_kill

SpecDl == InitDl /\ [][NextDl]_vars

----------------------------------------------------------------------------
(* The content addressing of a backend object *)

\* a backend object with either prefix, nothing computed yet
InitAddr ==
    /\ backend \in Backends
    /\ local_video = EmptyLocal /\ local_thumb = EmptyLocal
    /\ tmp_files = EmptyTmp
    /\ remote_video = EmptyRemote /\ remote_thumb = EmptyRemote
    /\ ctr = [uploaded |-> 0, downloaded |-> 0, total |-> 0]
    /\ op = IdleOp
    /\ ic = IdleIc
    /\ log = <<>>
    /\ addr \in {[NoAddrs EXCEPT !.prefix = pfx] : pfx \in Prefixes}
    /\ lst = NoListing

NextAddr == \E vid \in VideoIDs, kind \in Kinds : Resolve(vid, kind)

SpecAddr == InitAddr /\ [][NextAddr]_vars

\* an AWS backend with either prefix, over any of the buckets,
\* _aws_content_list about to be called
InitList ==
    /\ backend = "AWS"
    /\ local_video = EmptyLocal /\ local_thumb = EmptyLocal
    /\ tmp_files = EmptyTmp
    /\ remote_video = EmptyRemote /\ remote_thumb = EmptyRemote
    /\ ctr = [uploaded |-> 0, downloaded |-> 0, total |-> 0]
    /\ op = IdleOp
    /\ ic = IdleIc
    /\ log = <<>>
    /\ addr = NoAddrs
    /\ lst \in {[NoListing EXCEPT !.prefix = pfx, !.bucket = b, !.pc = "start"] :
                  <<pfx, b>> \in {x \in Prefixes \X UNION {Buckets(q) : q \in Prefixes} :
                                    x[2] \in Buckets(x[1])}}

NextList ==
    \/ \E k \in 1..MaxPage : List_first(k)
    \/ \E k \in 1..MaxPage : List_next(k)
    \/ List_build

SpecList == InitList /\ [][NextList]_vars

----------------------------------------------------------------------------
(* Properties of write_video and of the status calls (SpecStore) *)

\* the status a probe that the bucket answers truthfully gives
StatusNow(vid) ==
    video_status(vid, IF remote_video[vid] # None THEN "200" ELSE "404")

\* a write_video call that has started and has not returned
WriteUnfinished ==
    /\ op.name = "write_video"
    /\ op.pc \in InProgress \cup {"killed", "raised"}

\* C1: while a write_video copy is in progress, and after one that was
\* interrupted or fed a truncated source, the final video path holds nothing
\* that this write produced (it is as the call found it), and video_status
\* does not report LOCAL for a file that is not whole.
C1_WriteVideoAtomic ==
    WriteUnfinished =>
        /\ local_video[op.vid] = op.pre_local
        /\ \A code \in HeadCodes :
              video_status(op.vid, code) = SC_LOCAL
                 => Complete(local_video[op.vid])

\* C2: right after write_video(id, src) has returned, video_status(id) is
\* LOCAL, on both backends and whatever the bucket would answer.
C2_WrittenIsLocal ==
    (op.name = "write_video" /\ op.pc = "returned") =>
        \A code \in HeadCodes : video_status(op.vid, code) = SC_LOCAL

C2_Witness ==
    /\ op.name = "write_video" /\ op.pc = "returned"
    /\ Complete(local_video[op.vid]) /\ st_size(local_video[op.vid]) > 1

\* write_video of the caching backend has failed in its upload
UploadFailed ==
    /\ backend = "AWS" /\ op.name = "write_video"
    /\ op.pc = "raised" /\ op.err = "S3UploadFailedError"

\* C7 as stated: when write_video of the caching backend fails in its
\* upload, the local copy has landed (the video is LOCAL) and the bucket
\* holds no new copy.
C7_LocalLandedBeforeUpload ==
    UploadFailed =>
        /\ local_video[op.vid].exists
        /\ StatusNow(op.vid) = SC_LOCAL
        /\ remote_video[op.vid] = op.pre_remote

\* C7 amended: when write_video of the caching backend fails in its upload,
\* nothing has been written: the final video path and the remote object are
\* as the call found them.
C7_UploadFailureWritesNothing ==
    UploadFailed =>
        /\ local_video[op.vid] = op.pre_local
        /\ remote_video[op.vid] = op.pre_remote

C7_Witness ==
    /\ UploadFailed
    /\ ~local_video[op.vid].exists
    /\ StatusNow(op.vid) = SC_OFFLINE

\* C8: a write_video(id, src) that returns right after the same call had
\* returned leaves the final path, the remote object and video_status as the
\* first call left them.
C8_WriteVideoIdempotent ==
    (op.name = "write_video" /\ op.pc = "returned" /\ op.repeat) =>
        /\ local_video[op.vid] = op.pre_local
        /\ remote_video[op.vid] = op.pre_remote
        /\ tmp_files[".tmp"][op.vid] = NoFile
        /\ op.pre_local.exists /\ StatusNow(op.vid) = SC_LOCAL

C8_Witness ==
    /\ op.name = "write_video" /\ op.pc = "returned" /\ op.repeat
    /\ op.n > 1 /\ op.avail = op.n

\* a status call of the given name has returned a StorageClass
StatusReturned(name) == op.name = name /\ op.pc = "returned"

\* the classification the status calls are to compute, from what is on disk
\* and in the bucket
Classified(ret, is_local, is_remote) ==
    IF backend = "AWS"
    THEN /\ (ret = SC_LOCAL) = is_local
         /\ (ret = SC_REMOTE) = (~is_local /\ is_remote)
         /\ (ret = SC_OFFLINE) = (~is_local /\ ~is_remote)
    ELSE /\ (ret = SC_LOCAL) = is_local
         /\ (ret = SC_OFFLINE) = ~is_local
         /\ ret # SC_REMOTE

\* C9: a status call that returns gives LOCAL whenever the local file exists,
\* REMOTE exactly when it does not and the remote object exists, OFFLINE
\* exactly when both are absent; the local-only backend gives LOCAL or
\* OFFLINE, never REMOTE.
C9_StatusClassification ==
    /\ StatusReturned("video_status") =>
          Classified(op.ret, local_video[op.vid].exists,
                     remote_video[op.vid] # None)
    /\ StatusReturned("thumbnail_status") =>
          Classified(op.ret, local_thumb[op.vid].exists,
                     remote_thumb[op.vid] # None)

C9_Witness ==
    /\ backend = "AWS" /\ StatusReturned("video_status")
    /\ op.ret = SC_LOCAL /\ remote_video[op.vid] # None

\* a status call of the caching backend that had to ask the bucket
Probed ==
    /\ backend = "AWS"
    /\ \/ op.name = "video_status" /\ ~local_video[op.vid].exists
       \/ op.name = "thumbnail_status" /\ ~local_thumb[op.vid].exists

\* C10: when the existence probe answers 404 the status call returns OFFLINE
\* normally; when it fails with any other client error the call raises and
\* returns no StorageClass.
C10_AmbiguityIsNotAbsence ==
    Probed =>
        /\ op.code = "404" => op.pc = "returned" /\ op.ret = SC_OFFLINE
        /\ op.code \in HeadFaults =>
              op.pc = "raised" /\ op.err = "ValueError" /\ op.ret = "-"

C10_Witness ==
    /\ Probed /\ op.code \in HeadFaults /\ op.pc = "raised"
    /\ op.name = "video_status" /\ remote_video[op.vid] # None

----------------------------------------------------------------------------
(* Properties of get_video_url, delete_video and write_thumbnail (SpecStore) *)

\* the step is a get_video_url call made on the AWS backend
UrlCalled(vid, force) ==
    /\ backend = "AWS"
    /\ op'.seq = op.seq + 1 /\ op'.name = "get_video_url"
    /\ op'.vid = vid /\ op'.force = force

\* C11: on the AWS backend, get_video_url(id, force_download = false) for an
\* id with no local video returns at once a presigned URL made of the
\* configured bucket and of the remote key of id; the step changes no local
\* file, final or temporary, and no remote object, and video_status(id) is
\* after the call what it was before, whatever the bucket answers.
C11_PresignedUrlMovesNothing ==
    [][\A vid \in Ids :
         (UrlCalled(vid, FALSE) /\ ~local_video[vid].exists) =>
            /\ op'.pc = "returned" /\ op'.ret = "url"
            /\ op'.loc = <<"https", bucket_name, prefix, vid, ".mkv">>
            /\ local_video' = local_video /\ local_thumb' = local_thumb
            /\ tmp_files' = tmp_files
            /\ remote_video' = remote_video /\ remote_thumb' = remote_thumb
            /\ \A code \in HeadCodes :
                  video_status(vid, code)' = video_status(vid, code)]_vars

C11_Witness ==
    /\ backend = "AWS" /\ op.name = "get_video_url" /\ ~op.force
    /\ op.pc = "returned" /\ op.ret = "url"
    /\ ~op.pre_local.exists /\ op.pre_remote # None
    /\ StatusNow(op.vid) = SC_REMOTE

\* a forced get_video_url that found no local video and has returned
Promoted ==
    /\ backend = "AWS" /\ op.name = "get_video_url" /\ op.force
    /\ op.pc = "returned" /\ ~op.pre_local.exists

\* C12: a get_video_url(id, force_download = true) that returns for an id
\* that had no local video returns the local video path, the final path then
\* holds the whole remote object, the remote object is as it was and
\* video_status(id) is LOCAL; and on the AWS backend no step of a write, a
\* status call or a get_video_url takes a local video away again, so every
\* later video_status(id) is LOCAL too.
C12_ForcedDownloadPromotes ==
    [][/\ Promoted' =>
            /\ op'.ret = "path" /\ op'.loc = <<"path", op'.vid, ".mkv">>
            /\ op'.pre_remote # None
            /\ remote_video'[op'.vid] = op'.pre_remote
            /\ local_video'[op'.vid] = File(op'.pre_remote, op'.pre_remote)
            /\ \A code \in HeadCodes :
                  video_status(op.vid, code)' = SC_LOCAL
       /\ \A vid \in Ids :
            (backend = "AWS" /\ local_video[vid].exists) =>
               /\ local_video'[vid].exists
               /\ \A code \in HeadCodes :
                     video_status(vid, code)' = SC_LOCAL]_vars

C12_Witness ==
    /\ Promoted /\ op.pre_remote # None
    /\ StatusNow(op.vid) = SC_LOCAL /\ remote_video[op.vid] = op.pre_remote

\* a LocalFilesystem.write_video call that ran to its size check
LocalWriteChecked ==
    /\ backend = "Local" /\ op.name = "write_video"
    /\ op.pc \in {"returned", "raised"}

\* C15: when LocalFilesystem.write_video has copied a source that yielded
\* fewer blocks than its stat size, the call raises ValueError, the final
\* path is as the call found it (a file committed before keeps its
\* content), and the .tmp file stays with the blocks that were copied; when
\* the sizes agree the call returns.
C15_SizeMismatchRaises ==
    LocalWriteChecked =>
        IF op.avail # op.n
        THEN /\ op.pc = "raised" /\ op.err = "ValueError"
             /\ local_video[op.vid] = op.pre_local
             /\ tmp_files[".tmp"][op.vid].exists
             /\ tmp_files[".tmp"][op.vid].size = op.avail
        ELSE op.pc = "returned"

C15_Witness ==
    /\ LocalWriteChecked /\ op.pc = "raised" /\ op.avail # op.n
    /\ op.pre_local.exists /\ Complete(op.pre_local)
    /\ local_video[op.vid] = op.pre_local
    /\ tmp_files[".tmp"][op.vid].exists

\* the step is a delete_video call made on the Local backend
DeleteCalled(vid) ==
    /\ backend = "Local"
    /\ op'.seq = op.seq + 1 /\ op'.name = "delete_video" /\ op'.vid = vid

\* C16: LocalFilesystem.delete_video(id) returns with both files of id gone,
\* video_status and thumbnail_status both OFFLINE, when the video and the
\* thumbnail were both there; it raises when either was missing.
C16_DeleteBothOrRaise ==
    [][\A vid \in Ids :
         DeleteCalled(vid) =>
            IF local_video[vid].exists /\ local_thumb[vid].exists
            THEN /\ op'.pc = "returned"
                 /\ ~local_video'[vid].exists /\ ~local_thumb'[vid].exists
                 /\ \A code \in HeadCodes :
                       /\ video_status(vid, code)' = SC_OFFLINE
                       /\ thumbnail_status(vid, code)' = SC_OFFLINE
            ELSE op'.pc = "raised"]_vars

C16_Witness ==
    /\ backend = "Local" /\ op.name = "delete_video" /\ op.pc = "returned"
    /\ ~local_video[op.vid].exists /\ ~local_thumb[op.vid].exists

\* C18: a thumbnail that is at its final path is whole: in no state, a
\* write_thumbnail in progress or interrupted included, does the final
\* thumbnail path hold a file that has only part of its source.
C18_ThumbnailNeverPartial ==
    \A vid \in Ids :
        local_thumb[vid].exists => Complete(local_thumb[vid])

\* C29: on either backend, a video_cached(id) call returns True exactly
\* when video_status(id) is LOCAL, whatever the bucket answers.
C29_CachedIffLocal ==
    (op.name = "video_cached" /\ op.pc = "returned") =>
        \A code \in HeadCodes :
            (op.ret = "True") = (video_status(op.vid, code) = SC_LOCAL)

\* the keys of the objects of the bucket
RemoteKeys ==
    {VideoKey(v) : v \in {w \in Ids : remote_video[w] # None}}
    \cup {ThumbKey(v) : v \in {w \in Ids : remote_thumb[w] # None}}

LocalIds == {v \in Ids : Local_video_status(v) = SC_LOCAL}

UrlDownloaded ==
    /\ op.name = "get_video_url" /\ op.force /\ op.pc = "rename"

\* C26: when the download of a forced get_video_url has finished, the
\* counter its progress callback has been reporting, self.downloaded, is
\* the size of the object and so no more than self.total.
C26_ProgressWithinTotal ==
    UrlDownloaded =>
        /\ ctr.total = remote_video[op.vid]
        /\ ctr.downloaded <= ctr.total

----------------------------------------------------------------------------
(* Properties of the reconciler (SpecIC) *)

\* the pass is over, by return or by an exception
Ended == ic.pc \in {"returned", "raised"}

KnownSet == {ic.known[j] : j \in 1..Len(ic.known)}

\* the loop has finished the turn of vid
Done(vid) ==
    \E j \in 1..Len(ic.known) :
        ic.known[j] = vid /\ (j < ic.i \/ ic.pc = "returned")

\* the lines of a log
Range(f) == {f[j] : j \in 1..Len(f)}

\* the diagnostics printed for vid
Diagnostics(vid) == {j \in 1..Len(log) : log[j].vid = vid}

\* the exceptions of a transfer that the bucket or the network fails
TransferErrors == {"S3UploadFailedError", "TransferError"}

\* KnownSet = {A, B}, PinSet = {A}, nothing in the local cache
TwoKnownOnePinned ==
    /\ KnownSet = {"A", "B"} /\ ic.pins = {"A"}
    /\ \A v \in Ids : ~ic.local0[v].exists /\ ~local_thumb[v].exists

\* C3 as stated: KnownSet = {A, B}, PinSet = {A}, a bucket holding only B, an
\* empty cache: the pass ends with A LOCAL, B REMOTE-only and no diagnostic.
C3_ConvergenceRemoteOnlyB ==
    (/\ TwoKnownOnePinned /\ Ended
     /\ ~ic.aws_videos["A"].in
     /\ ic.aws_videos["B"].video # None /\ ic.aws_videos["B"].thumb # None)
    => /\ StatusNow("A") = SC_LOCAL
       /\ StatusNow("B") = SC_REMOTE
       /\ log = <<>>
    /\ addr = NoAddrs
    /\ lst = NoListing

\* the bucket held, at the listing, the video and the thumbnail of A and of B
BucketHoldsBoth ==
    \A v \in {"A", "B"} :
        ic.aws_videos[v].video # None /\ ic.aws_videos[v].thumb # None

\* C3 amended: KnownSet = {A, B}, PinSet = {A}, a bucket holding the video
\* and the thumbnail of A and of B, an empty cache: a pass that returns ends
\* with A LOCAL (downloaded), B REMOTE-only (neither downloaded nor evicted)
\* and no diagnostic.
C3_ConvergenceRemoteBoth ==
    (TwoKnownOnePinned /\ BucketHoldsBoth /\ ic.pc = "returned")
    => /\ StatusNow("A") = SC_LOCAL
       /\ <<"download", "video", "A">> \in ic.acts
       /\ StatusNow("B") = SC_REMOTE
       /\ \A a \in ic.acts : a[3] # "B"
       /\ log = <<>>
    /\ addr = NoAddrs
    /\ lst = NoListing

C3_Witness ==
    /\ TwoKnownOnePinned /\ BucketHoldsBoth /\ ic.pc = "returned"
    /\ Complete(local_video["A"])

\* C4: the loop of the pass never stops, with known ids still to come, in an
\* exception over an asset that is an anomaly (a known id with no copy
\* anywhere): only a transfer that the bucket or the network fails can keep
\* the remaining ids from being reconciled.
C4_AnomaliesNeverAbort ==
    (ic.pc = "raised" /\ ic.i > 0 /\ ic.i < Len(ic.known))
        => ic.err \in TransferErrors

\* KnownSet = {c}, PinSet empty, c in no listing entry and not in the cache,
\* the listing holding other objects
OneKnownMissing(c) ==
    /\ ic.known = <<c>> /\ ic.pins = {}
    /\ ~ic.aws_videos[c].in /\ \E w \in Ids : ic.aws_videos[w].in
    /\ ~ic.local0[c].exists /\ ~local_thumb[c].exists

EvictionCase(vid) ==
    /\ Done(vid) /\ ic.local0[vid].exists /\ vid \notin ic.pins

\* C6 as stated: for a known id cached locally and not pinned, the pass
\* removes the local video and leaves the remote video as the listing
\* recorded it (same existence, same size).
C6_EvictionLeavesRemote ==
    \A v \in Ids :
        EvictionCase(v) =>
            /\ ~local_video[v].exists
            /\ remote_video[v] = ic.aws_videos[v].video

\* C6 amended: for a known id cached locally and not pinned, once the pass
\* has finished the id the local video is removed and the bucket holds a
\* video of the local file's size: left as listed when the listing recorded
\* that size, uploaded from the local copy before the eviction otherwise.
C6_EvictionAfterSync ==
    \A v \in Ids :
        EvictionCase(v) =>
            /\ ~local_video[v].exists
            /\ <<"evict", "video", v>> \in ic.acts
            /\ remote_video[v] = st_size(ic.local0[v])
            /\ (<<"upload", "video", v>> \in ic.acts)
                  = (ic.aws_videos[v].video # st_size(ic.local0[v]))

C6_Witness ==
    /\ EvictionCase("A")
    /\ ic.aws_videos["A"].video \notin {None, st_size(ic.local0["A"])}
    /\ remote_video["A"] = st_size(ic.local0["A"])

\* vid is known, pinned, was not cached when the pass began, was listed with
\* a video, and the pass has returned
PinPromotionCase(vid) ==
    /\ ic.pc = "returned" /\ vid \in KnownSet /\ vid \in ic.pins
    /\ ~ic.local0[vid].exists
    /\ ic.aws_videos[vid].video # None

\* C13: for every known and pinned id that was not cached and whose video
\* the listing held, after a pass that returns the final path holds the whole
\* remote video (video_status is LOCAL), fetched by a download of the pass,
\* and the remote video is as the listing recorded it.
C13_PinPromotion ==
    \A v \in Ids :
        PinPromotionCase(v) =>
            /\ StatusNow(v) = SC_LOCAL
            /\ local_video[v] =
                  File(ic.aws_videos[v].video, ic.aws_videos[v].video)
            /\ <<"download", "video", v>> \in ic.acts
            /\ remote_video[v] = ic.aws_videos[v].video

C13_Witness ==
    /\ PinPromotionCase("B") /\ ic.known = <<"A", "B">>
    /\ Complete(local_video["B"]) /\ remote_video["B"] # None

\* the loop is past the video leg of vid
PastVideoLeg(vid) ==
    \/ Done(vid)
    \/ ic.i > 0 /\ Cur = vid /\ ic.pc \in {"thumb", "pin", "rename"}

\* C14: for every known id whose video is cached when the loop reaches it,
\* once the video leg is past the bucket holds a video of the local file's
\* size, and the pass has uploaded the local copy exactly when the listing
\* had no video for the id or one of another size.
C14_LocalIsGroundTruth ==
    \A v \in Ids :
        (PastVideoLeg(v) /\ ic.local0[v].exists) =>
            /\ remote_video[v] = st_size(ic.local0[v])
            /\ (<<"upload", "video", v>> \in ic.acts)
                  = (\/ ic.aws_videos[v].video = None
                     \/ ic.aws_videos[v].video # st_size(ic.local0[v]))

C14_Witness ==
    /\ PastVideoLeg("A") /\ ic.local0["A"].exists /\ "A" \in ic.pins
    /\ ic.aws_videos["A"].video \notin {None, st_size(ic.local0["A"])}
    /\ remote_video["A"] = st_size(ic.local0["A"])
    /\ ic.pc = "pin"

\* vid is known and not pinned, the loop has finished its turn, and its
\* video was neither cached nor listed
VideoMissingCase(vid) ==
    /\ Done(vid) /\ vid \notin ic.pins
    /\ ~ic.local0[vid].exists /\ ic.aws_videos[vid].video = None

\* the same for its thumbnail
ThumbMissingCase(vid) ==
    /\ Done(vid) /\ vid \notin ic.pins
    /\ ~local_thumb[vid].exists /\ ic.aws_videos[vid].thumb = None

\* the pass has left the files and the objects of vid as it found them
IdUntouched(vid) ==
    /\ local_video[vid] = ic.local0[vid]
    /\ remote_video[vid] = ic.aws_videos[vid].video
    /\ remote_thumb[vid] = ic.aws_videos[vid].thumb
    /\ \A a \in ic.acts : a[3] # vid

\* C20 as stated: for a known, unpinned id whose video (or thumbnail) is
\* neither cached nor listed, the pass prints the missing diagnostic of that
\* leg and leaves the local and the remote state of the id unchanged.
C20_MissingLeavesIdUntouched ==
    \A v \in Ids :
        /\ VideoMissingCase(v) =>
              Missing(v, "video") \in Range(log) /\ IdUntouched(v)
        /\ ThumbMissingCase(v) =>
              Missing(v, "thumbnail") \in Range(log) /\ IdUntouched(v)

\* C20 amended: for a known, unpinned id whose video (or thumbnail) is
\* neither cached nor listed, a pass that finishes the id prints the missing
\* diagnostic of that leg and does no upload, download, creation or deletion
\* of that kind for the id: its local and remote video (or thumbnail) are
\* absent as before.  The other leg of the id is reconciled as usual.
C20_MissingLegUntouched ==
    \A v \in Ids :
        /\ VideoMissingCase(v) =>
              /\ Missing(v, "video") \in Range(log)
              /\ \A a \in ic.acts : ~(a[2] = "video" /\ a[3] = v)
              /\ ~local_video[v].exists /\ remote_video[v] = None
              /\ \A sfx \in Suffixes : ~tmp_files[sfx][v].exists
        /\ ThumbMissingCase(v) =>
              /\ Missing(v, "thumbnail") \in Range(log)
              /\ \A a \in ic.acts : ~(a[2] = "thumbnail" /\ a[3] = v)
              /\ ~local_thumb[v].exists /\ remote_thumb[v] = None

C20_Witness ==
    /\ VideoMissingCase("A") /\ ~ThumbMissingCase("A")
    /\ <<"upload", "thumbnail", "A">> \in ic.acts
    /\ Missing("A", "video") \in Range(log)
    /\ remote_video["A"] = None

\* the loop is past the thumbnail leg of vid
PastThumbLeg(vid) ==
    \/ Done(vid)
    \/ ic.i > 0 /\ Cur = vid /\ ic.pc \in {"pin", "rename"}

\* the missing diagnostics that name vid, by the leg that printed them
MissingLegs(vid) == {log[j].leg : j \in Diagnostics(vid)}

PassStarted == ic.pc # "idle"

\* C22: in a pass, every upload, download and eviction is of a known id; for
\* an id that is not known the local video, the temporary files and (when
\* the listing was obtained) the remote objects are as the pass found them,
\* whether the id is cached, pinned, both or neither.
C22_OnlyKnownIds ==
    PassStarted =>
        /\ \A a \in ic.acts : a[3] \in KnownSet
        /\ \A v \in Ids \ KnownSet :
              /\ local_video[v] = ic.local0[v]
              /\ \A sfx \in Suffixes : ~tmp_files[sfx][v].exists
              /\ ~(ic.pc = "raised" /\ ic.i = 0) =>
                    /\ remote_video[v] = ic.aws_videos[v].video
                    /\ remote_thumb[v] = ic.aws_videos[v].thumb

C22_Witness ==
    /\ ic.pc = "returned" /\ ic.known = <<"A">> /\ ic.pins = {"A"}
    /\ <<"download", "video", "A">> \in ic.acts
    /\ ic.local0["B"].exists /\ local_video["B"] = ic.local0["B"]
    /\ remote_video["B"] = None

\* C23: the step that starts a pass takes the listing, once, as the bucket
\* then is and before any upload, download or eviction; no later step of the
\* pass lists again or changes the snapshot, also when the bucket has since
\* changed under the pass's own uploads; and the total of a download is the
\* size the snapshot recorded.
C23_SingleListing ==
    [][/\ (ic.pc = "idle" /\ ic'.pc # "idle") =>
            /\ ic'.lists = 1 /\ ic'.acts = {}
            /\ store' = store
            /\ ic'.pc # "raised" => ic'.aws_videos = aws_content_list
       /\ ic.pc # "idle" =>
            /\ ic'.lists = ic.lists
            /\ ic'.aws_videos = ic.aws_videos
            /\ (<<"download", "video", Cur>> \in ic'.acts \ ic.acts) =>
                  ctr'.total = ic.aws_videos[Cur].video]_vars

C23_Witness ==
    /\ ic.pc = "returned" /\ ic.lists = 1 /\ Len(ic.known) = 2
    /\ ic.aws_videos # aws_content_list
    /\ \E v \in Ids : <<"download", "video", v>> \in ic.acts
    /\ \E v \in Ids : <<"upload", "video", v>> \in ic.acts

\* C27: whenever a step of the pass removes a local video, the bucket holds
\* at that moment a video object of the same id whose size is the size of
\* the file that is removed.
C27_EvictionKeepsACopy ==
    [][\A v \in Ids :
         (local_video[v].exists /\ ~local_video'[v].exists) =>
            /\ remote_video[v] # None
            /\ remote_video[v] = st_size(local_video[v])
            /\ remote_video'[v] = remote_video[v]]_vars

C27_Witness ==
    /\ <<"evict", "video", "B">> \in ic.acts
    /\ <<"upload", "video", "B">> \in ic.acts
    /\ ic.aws_videos["B"].video = None
    /\ ~local_video["B"].exists
    /\ remote_video["B"] = st_size(ic.local0["B"])

----------------------------------------------------------------------------
(* Properties of the two download paths (SpecDl) *)

\* the temporary files of the two download paths
DownloadSuffixes == {".dl_tmp_1", ".dl_tmp_2"}

\* the step moves a whole downloaded object from a temporary file of vid to
\* the final path of vid
CommittedByRename(vid) ==
    \E sfx \in DownloadSuffixes :
        /\ tmp_files[sfx][vid].exists /\ Complete(tmp_files[sfx][vid])
        /\ st_size(tmp_files[sfx][vid]) = remote_video[vid]
        /\ local_video'[vid] = tmp_files[sfx][vid]
        /\ ~tmp_files'[sfx][vid].exists

\* a forced get_video_url that has not returned
UrlDownloadUnfinished ==
    /\ op.name = "get_video_url"
    /\ op.pc \in {"download", "rename", "raised", "killed"}

\* a pin step that is at its rename, was interrupted, or whose download
\* failed
PinDownloadUnfinished ==
    \/ ic.pc \in {"rename", "killed"}
    \/ ic.pc = "raised" /\ ic.err \in {"TransferError", "ClientError404"}

\* C19: in get_video_url(force_download) and in the pin step of the pass, a
\* video appears at a final path only by the rename of a temporary file that
\* holds the whole remote object; and when a download is under way, has
\* failed or was interrupted, the step that leaves it so leaves no video at
\* the final path of its id (video_status is not LOCAL).
C19_DownloadsCommitByRename ==
    [][/\ \A vid \in Ids :
            (local_video'[vid] # local_video[vid] /\ local_video'[vid].exists)
               => CommittedByRename(vid)
       /\ (op' # op /\ UrlDownloadUnfinished') =>
            /\ ~local_video'[op'.vid].exists
            /\ \A code \in HeadCodes :
                  video_status(op.vid, code)' # SC_LOCAL
       /\ (ic' # ic /\ PinDownloadUnfinished') =>
            /\ ~local_video'[ic'.known[ic'.i]].exists
            /\ \A code \in HeadCodes :
                  video_status(Cur, code)' # SC_LOCAL]_vars

C19_Witness ==
    /\ ic.pc = "killed" /\ tmp_files[".dl_tmp_2"][Cur].exists
    /\ ~local_video[Cur].exists
    /\ op.name = "get_video_url" /\ op.force /\ op.pc = "returned"
    /\ ~op.pre_local.exists /\ Complete(local_video[op.vid])

----------------------------------------------------------------------------
(* Properties of _aws_content_list (SpecList) *)

\* _aws_content_list has ended, by return or by an exception
ListingEnded == lst.pc \in {"returned", "raised"}

\* the bucket holds only objects at keys of this layer
OnlyOurs == \A j \in 1..Len(lst.bucket) : lst.bucket[j].ours

\* the size of the object at key, None when the bucket has none
size_at(key) ==
    IF \E j \in 1..Len(lst.bucket) : lst.bucket[j].key = key
    THEN (CHOOSE x \in {lst.bucket[j] : j \in 1..Len(lst.bucket)} :
             x.key = key).size
    ELSE None

\* the map that records, for the ids that have an object at a key of this
\* layer, the sizes of those objects
ExpectedOutput ==
    [vid \in {v \in ListedIds :
                \/ size_at(aws_filename(lst.prefix, v)) # None
                \/ size_at(aws_thumbnail_filename(lst.prefix, v)) # None} |->
        [video |-> size_at(aws_filename(lst.prefix, vid)),
         thumb |-> size_at(aws_thumbnail_filename(lst.prefix, vid))]]

\* C24: over a bucket that holds any number of this layer's objects, none
\* included, and whatever the pages, _aws_content_list returns, and the map
\* it returns has the size of every video and thumbnail object and nothing
\* else.
C24_ListingReturnsAll ==
    (ListingEnded /\ OnlyOurs) =>
        lst.pc = "returned" /\ lst.output = ExpectedOutput

\* C30: over a bucket that is not empty, _aws_content_list returns, and its
\* map records a size for (id, kind) exactly when the bucket has an object
\* at the key of (id, kind), that object's size; objects at other keys
\* under the prefix add no entry and do not make the listing fail.
C30_ListingMatchesKeys ==
    (ListingEnded /\ lst.bucket # <<>>) =>
        lst.pc = "returned" /\ lst.output = ExpectedOutput

----------------------------------------------------------------------------
(* Properties of the content addressing (SpecAddr) *)

\* two addresses have been computed
TwoResolved == addr.last.kind # "-" /\ addr.prev.kind # "-"

\* C17: for VideoIDs of 11 characters of the alphabet, the shard numbers are
\* code - 32 of the first two characters and lie in 0..94; the same (id,
\* kind) gives the same path and key; two different (id, kind) give
\* different local paths and different remote keys, a video path never being
\* a thumbnail path; and no shard directory is named "thumbs".
C17_ContentAddressing ==
    /\ \A c \in Alphabet : shard(c) \in 0..94
    /\ \A a \in {addr.last, addr.prev} :
          a.kind # "-" =>
             /\ Len(a.vid) = IdLen
             /\ a.shards = <<a.vid[1] - 32, a.vid[2] - 32>>
             /\ \A j \in 1..2 : a.shards[j] \in 0..94 /\ a.dirs[j] # Thumbs
    /\ TwoResolved =>
          /\ (addr.last.vid = addr.prev.vid /\ addr.last.kind = addr.prev.kind)
                => /\ addr.last.path = addr.prev.path
                   /\ addr.last.key = addr.prev.key
          /\ addr.last.path = addr.prev.path
                => /\ addr.last.vid = addr.prev.vid
                   /\ addr.last.kind = addr.prev.kind
          /\ addr.last.key = addr.prev.key
                => /\ addr.last.vid = addr.prev.vid
                   /\ addr.last.kind = addr.prev.kind
          /\ addr.last.kind # addr.prev.kind
                => addr.last.path # addr.prev.path

C17_Witness ==
    /\ TwoResolved
    /\ addr.last.vid # addr.prev.vid /\ addr.last.dirs = addr.prev.dirs
    /\ addr.last.kind = "video" /\ addr.prev.kind = "thumbnail"
    /\ addr.last.shards = <<13, 90>>
    /\ addr.last.path # addr.prev.path /\ addr.last.key # addr.prev.key

====
